---------------------------- MODULE Spec2Model ----------------------------
(***************************************************************************)
(* External-code components that run in their own folders.                 *)
(*                                                                         *)
(* Two programs of the repository are modelled:                            *)
(*   "mpi"    extcode_folder_names_mpi_example.py: every MPI rank builds   *)
(*            SummerDistribGroup (indep -> C2 DistribExtCodeComp -> C3     *)
(*            Summer), runs the external doubling script on its slice in   *)
(*            its folder distrib_<rank>, and sums with Allreduce;          *)
(*   "serial" external_code_folder_names_example.py: one process runs      *)
(*            ParaboloidExternalCodeComp 'p' and then                      *)
(*            SquareExternalCodeComp 's', each in its own folder.          *)
(* A state is the file system shared by the processes plus, per process,   *)
(* its position in the script, its working directory, the attributes the   *)
(* setup methods store and the values of the component ports.              *)
(***************************************************************************)
EXTENDS Integers, Sequences, FiniteSets, TLC

\* ------------------------------------------------------------------ bounds
\* Largest communicator size of the "mpi" program.
MaxProcs == 2
\* Largest global vector length besides the script's own size.
MaxSize == 3
\* Largest worker count and global length of the partition-only specification.
MaxWorkers == 6
MaxLen == 16
\* Largest number of run_model calls of the serial script.
MaxRuns == 2

\* size = 15, the length of indep.x in the mpi script.
size == 15

\* ---------------------------------------------------------- pure helpers
RECURSIVE SeqSum(_)
\* np.sum of a vector
SeqSum(s) == IF s = <<>> THEN 0 ELSE Head(s) + SeqSum(Tail(s))

\* sizes of evenly_distrib_idxs with the extra elements on the LAST ranks
EvenSizesLast(num_divisions, arr_size) ==
  [r \in 0..(num_divisions - 1) |->
     (arr_size \div num_divisions)
       + (IF r >= num_divisions - (arr_size % num_divisions) THEN 1 ELSE 0)]

\* evenly_distrib_idxs: base = arr_size // num_divisions, the first
\* (arr_size % num_divisions) divisions get one more.
EvenSizes(num_divisions, arr_size) ==
  [r \in 0..(num_divisions - 1) |->
     (arr_size \div num_divisions)
       + (IF r < arr_size % num_divisions THEN 1 ELSE 0)]

RECURSIVE CumSum(_, _)
\* sum of f[0..r-1]
CumSum(f, r) == IF r = 0 THEN 0 ELSE f[r - 1] + CumSum(f, r - 1)

\* offsets taken as rank * base, forgetting the extra elements
EvenOffsetsNoExtra(num_divisions, arr_size) ==
  [r \in 0..(num_divisions - 1) |-> r * (arr_size \div num_divisions)]

\* evenly_distrib_idxs: offsets[0] = 0, offsets[1:] = cumsum(sizes)[:-1]
EvenOffsets(num_divisions, arr_size) ==
  [r \in 0..(num_divisions - 1) |-> CumSum(EvenSizes(num_divisions, arr_size), r)]

\* sizes, offsets = evenly_distrib_idxs(comm.size, self.size)
evenly_distrib_idxs(num_divisions, arr_size) ==
  [sizes   |-> EvenSizes(num_divisions, arr_size),
   offsets |-> EvenOffsets(num_divisions, arr_size)]

\* start = offsets[rank]; end = start + sizes[rank]; the local arrays are
\* np.ones(sizes[rank]) and src_indices = arange(start, end)
DistribSlice(comm_size, comm_rank, n) ==
  LET d == evenly_distrib_idxs(comm_size, n)
      start == d.offsets[comm_rank]
  IN  [start |-> start, end |-> start + d.sizes[comm_rank], n |-> d.sizes[comm_rank]]


\* ------------------------------------------------------------------ state
VARIABLES
  prog,           \* which script runs: "mpi", "serial" or "partition"
  comm_size,      \* comm.size: the number of processes
  self_size,      \* self.size: the global vector length given to C2 and C3
  indep,          \* mpi: p['indep.x']; serial: <<p1.x, p2.y>>
  dirs,           \* file system: the directories that exist (paths)
  files,          \* file system: path -> content of the regular files that exist
  readonly,       \* file system: directories in which nothing can be created
  pc,             \* per process: <<component, step>> about to execute
  cwd,            \* per process: os.getcwd()
  startdir,       \* per process: the local startdir of the running compute
  run_directory,  \* per process, per component: self.run_directory
  slice,          \* per process, per component: start, end, n of setup
  inputs,         \* per process: the input ports' values
  outputs,        \* per process: the output ports' values
  err,            \* per process: the exception that ended the script, if any
  rc,             \* per process: exit status of the last external command
  ext,            \* per process: what the last external command did
  log,            \* per process: the steps of compute performed, in order
  data,           \* per process: Summer.compute's data[0]
  acc,            \* Allreduce: the running sum of the send buffers
  arrived,        \* Allreduce: the ranks that have called it
  run_no,         \* per process: the number of run_model calls started
  cmd,            \* per process, per component: what its command did in this run
  prev            \* per process: indep and the outputs when the previous run ended

vars == <<prog, comm_size, self_size, indep, dirs, files, readonly, pc, cwd,
          startdir, run_directory, slice, inputs, outputs, err, rc, ext, log,
          data, acc, arrived, run_no, cmd, prev>>

Ranks == 0..(comm_size - 1)

\* a module-level rank that numbers the processes the other way round
rank_reversed(p) == comm_size - 1 - p

\* rank = MPI.COMM_WORLD.rank, read once at import
rank(p) == p
\* comm.rank of a component: the problem runs on COMM_WORLD
comm_rank(p) == p

\* -------------------------------------------------------------- file system
Root == <<>>
\* where the script is started from
LaunchDir == <<"launchdir">>
\* toplevel_run_directory, '/tmp/summer_distrib' or '/tmp/paraboloid_squared'
toplevel_run_directory == <<"toplevel_run_directory">>

Parent(path) == SubSeq(path, 1, Len(path) - 1)
\* os.path.join(dir, name)
Join(dir, name) == Append(dir, name)

Exists(path) == path \in dirs \/ path \in DOMAIN files

\* os.mkdir(path): "ok", or the OSError it raises
MkdirResult(path) ==
  IF Exists(path) THEN "FileExistsError"
  ELSE IF Parent(path) \in DOMAIN files THEN "NotADirectoryError"
  ELSE IF Parent(path) \notin dirs THEN "FileNotFoundError"
  ELSE IF Parent(path) \in readonly THEN "PermissionError"
  ELSE "ok"

\* try: os.mkdir(path) / except: pass -- every exception is dropped
MkdirSwallow(path) == IF MkdirResult(path) = "ok" THEN dirs \cup {path} ELSE dirs

\* os.chdir(path): "ok", or the OSError it raises
ChdirResult(path) ==
  IF path \in dirs THEN "ok"
  ELSE IF path \in DOMAIN files THEN "NotADirectoryError"
  ELSE "FileNotFoundError"

\* a write that adds to what the file already holds
AppendFile(fs, path, content) ==
  [q \in (DOMAIN fs) \cup {path} |->
     IF q = path THEN (IF q \in DOMAIN fs THEN fs[q] ELSE <<>>) \o content ELSE fs[q]]

\* files with path |-> content created or overwritten
WriteFile(fs, path, content) ==
  [q \in (DOMAIN fs) \cup {path} |-> IF q = path THEN content ELSE fs[q]]

\* ---------------------------------------------------------------- components
ExtComps == {"C2", "p", "s"}
Order(pr) == IF pr = "serial" THEN <<"p", "s">> ELSE <<"C2", "C3">>
CompsOf(pr) == {Order(pr)[i] : i \in 1..Len(Order(pr))}
IndexOf(pr, c) == CHOOSE i \in 1..Len(Order(pr)) : Order(pr)[i] = c

DigitChar(d) == <<"0", "1", "2", "3", "4", "5", "6", "7", "8", "9">>[d + 1]
RECURSIVE Digits(_)
\* '{}'.format(n): the decimal digits of n, most significant first
Digits(n) ==
  IF n < 10 THEN <<DigitChar(n)>> ELSE Append(Digits(n \div 10), DigitChar(n % 10))

\* a subdirectory name that leaves the rank out
subdir_name_norank(c, p) ==
  IF c = "C2" THEN <<"distrib_">>
  ELSE IF c = "p" THEN <<"paraboloid">> ELSE <<"squared">>

\* subdir_name = 'distrib_{}'.format(rank); 'paraboloid'; 'squared'
subdir_name(c, p) ==
  IF c = "C2" THEN <<"distrib_">> \o Digits(comm_rank(p))
  ELSE IF c = "p" THEN <<"paraboloid">> ELSE <<"squared">>

\* self.input_file, self.output_file
input_file(c) ==
  IF c = "C2" THEN "distrib_comp_input.dat"
  ELSE IF c = "p" THEN "paraboloid_input.dat" ELSE "square_input.dat"
output_file(c) ==
  IF c = "C2" THEN "distrib_comp_output.dat"
  ELSE IF c = "p" THEN "paraboloid_output.dat" ELSE "square_output.dat"

NoDir == <<"unset">>
NoErr == [kind |-> "none", code |-> 0, file |-> ""]
Error(kind, code, file) == [kind |-> kind, code |-> code, file |-> file]


\* ------------------------------------------------------------ file formats
\* A text line holding one number: the format that wrote it, its sign and its
\* digits (the values of the model are whole numbers, which both formats
\* write exactly).
Abs(v) == IF v < 0 THEN -v ELSE v
\* '%.16f\n' % v
Fmt16(v) == [fmt |-> "%.16f", neg |-> v < 0, digits |-> Abs(v)]
\* one row of np.savetxt, default fmt '%.18e'
SaveTxtRow(v) == [fmt |-> "%.18e", neg |-> v < 0, digits |-> Abs(v)]
\* a line that is not a number
Garbage == [fmt |-> "garbage", neg |-> FALSE, digits |-> 0]
\* a line left by an earlier execution of the script
StaleRow == [fmt |-> "%.18e", neg |-> FALSE, digits |-> 7]

IsNumber(line) == line.fmt # "garbage"
\* float(text)
Float(line) == IF line.neg THEN -line.digits ELSE line.digits

\* np.savetxt(file, vec) of a 1-D array
SaveTxt(vec) == [i \in 1..Len(vec) |-> SaveTxtRow(vec[i])]

\* np.loadtxt(file): raises on a line that is no number; one line gives a
\* 0-d array, any other count a 1-D array
LoadTxt(content) ==
  IF \E i \in 1..Len(content) : ~IsNumber(content[i])
  THEN [ok |-> FALSE, ndim |-> 0, val |-> <<>>]
  ELSE [ok |-> TRUE, ndim |-> IF Len(content) = 1 THEN 0 ELSE 1,
        val |-> [i \in 1..Len(content) |-> Float(content[i])]]

\* float(output_file.read()): the whole file must be one number
ReadFloat(content) ==
  IF Len(content) = 1 /\ IsNumber(content[1])
  THEN [ok |-> TRUE, ndim |-> 0, val |-> <<Float(content[1])>>]
  ELSE [ok |-> FALSE, ndim |-> 0, val |-> <<>>]

\* ------------------------------------------------------ external scripts
\* What a run of the command leaves: exit status, whether the output file
\* was opened for writing, and what was written to it.
Ran(code, wrote, out) == [rc |-> code, wrote |-> wrote, out |-> out]

\* a script that copies its input instead of doubling it
extcode_distrib_copy(content) ==
  LET invec == LoadTxt(content)
  IN  IF ~invec.ok THEN Ran(1, FALSE, <<>>)
      ELSE IF invec.ndim = 0 THEN Ran(1, TRUE, <<>>)
      ELSE Ran(0, TRUE, SaveTxt(invec.val))

\* extcode_distrib_comp.py: outvec = 2.0 * loadtxt(input); savetxt(output).
\* A one-line input loads as a 0-d array, which savetxt refuses after the
\* output file has been opened: the script dies with status 1.
extcode_distrib_comp(content) ==
  LET invec == LoadTxt(content)
  IN  IF ~invec.ok THEN Ran(1, FALSE, <<>>)
      ELSE IF invec.ndim = 0 THEN Ran(1, TRUE, <<>>)
      ELSE Ran(0, TRUE, SaveTxt([i \in 1..Len(invec.val) |-> 2 * invec.val[i]]))

\* a script that doubles its input instead of squaring it
extcode_double(content) ==
  IF content = <<>> \/ \E i \in 1..Len(content) : ~IsNumber(content[i])
  THEN Ran(1, FALSE, <<>>)
  ELSE Ran(0, TRUE, <<Fmt16(2 * Float(content[1]))>>)

\* extcode_square.py: x = [float(f) for f in lines]; f_x = x[0]**2
extcode_square(content) ==
  IF content = <<>> \/ \E i \in 1..Len(content) : ~IsNumber(content[i])
  THEN Ran(1, FALSE, <<>>)
  ELSE Ran(0, TRUE, <<Fmt16(Float(content[1]) * Float(content[1]))>>)

\* extcode_paraboloid.py: f(x,y) = (x-3)^2 + xy + (y+4)^2 - 3
extcode_paraboloid(content) ==
  IF Len(content) # 2 \/ \E i \in 1..Len(content) : ~IsNumber(content[i])
  THEN Ran(1, FALSE, <<>>)
  ELSE LET x == Float(content[1])
           y == Float(content[2])
       IN  Ran(0, TRUE, <<Fmt16((x - 3) * (x - 3) + x * y + (y + 4) * (y + 4) - 3)>>)

\* self.options['command']: the script each component wraps
Script(c, content) ==
  IF c = "C2" THEN extcode_distrib_comp(content)
  ELSE IF c = "p" THEN extcode_paraboloid(content)
  ELSE extcode_square(content)

\* What the command did, by what the environment let it do:
\*   "ok"       the script ran as written;
\*   "exit"     the command ended with status code before writing anything
\*              (interpreter or script not found, killed);
\*   "nowrite"  the command ended with status 0 and wrote no output file;
\*   "garbled"  the command ended with status 0 and wrote a malformed file.
ExtOutcomes == {"ok", "exit", "nowrite", "garbled"}
ExitCodes == {1, 2}
Command(c, content, outcome, code) ==
  IF outcome = "ok" THEN Script(c, content)
  ELSE IF outcome = "exit" THEN Ran(code, FALSE, <<>>)
  ELSE IF outcome = "nowrite" THEN Ran(0, FALSE, <<>>)
  ELSE Ran(0, TRUE, <<Garbage>>)

\* a return-code check that lets every status pass
ReturnCodeIgnored(code) == TRUE
\* ExternalCodeComp.compute: the status must be in allowed_return_codes = [0]
ReturnCodeAllowed(code) == code = 0


\* ------------------------------------------------------------------ ports
Ones(n) == [i \in 1..n |-> 1]
NoSlice == [start |-> 0, end |-> 0, n |-> 0]

\* the connections of the group: the values a component's inputs receive
\* when it is about to run
\*   indep.x -> C2.invec[src_indices];  p1.x -> p.x, p2.y -> p.y;  p.f_xy -> s.x
Transfer(c, p) ==
  IF c = "C2"
  THEN [inputs[p] EXCEPT
          !.C2_invec = SubSeq(indep, slice[p]["C2"].start + 1, slice[p]["C2"].end)]
  ELSE IF c = "p" THEN [inputs[p] EXCEPT !.p_x = indep[1], !.p_y = indep[2]]
  ELSE [inputs[p] EXCEPT !.s_x = outputs[p].p_f_xy]

\* entry i (0-based) of the distributed output C2.outvec: the entry
\* i - offsets[q] of the rank q that owns it
GlobalOutvec(i) ==
  LET d == evenly_distrib_idxs(comm_size, self_size)
      q == CHOOSE q \in Ranks : d.offsets[q] <= i /\ i < d.offsets[q] + d.sizes[q]
      k == i - d.offsets[q] + 1
  IN  IF k \in DOMAIN outputs[q].C2_outvec THEN outputs[q].C2_outvec[k] ELSE 1

\* C2.outvec -> C3.invec[src_indices = arange(start, end)]
TransferSummer(p) ==
  [inputs[p] EXCEPT
     !.C3_invec = [k \in 1..(slice[p]["C3"].end - slice[p]["C3"].start) |->
                     GlobalOutvec(slice[p]["C3"].start + k - 1)]]

\* the input file a compute writes
InputText(c, inp) ==
  IF c = "C2" THEN SaveTxt(inp.C2_invec)
  ELSE IF c = "p" THEN <<Fmt16(inp.p_x), Fmt16(inp.p_y)>>
  ELSE <<Fmt16(inp.s_x)>>

\* how a compute reads its output file
ParseOutput(c, content) == IF c = "C2" THEN LoadTxt(content) ELSE ReadFloat(content)

\* outputs['outvec'] = outvec needs a value that broadcasts to the declared
\* shape (sizes[rank],): a 0-d value, or a 1-D value of length 1 or n
Assignable(c, p, parsed) ==
  c = "C2" =>
    \/ parsed.ndim = 0
    \/ Len(parsed.val) = slice[p]["C2"].n

\* outputs[...] = the parsed value
Assign(c, p, parsed) ==
  IF c = "C2"
  THEN [outputs[p] EXCEPT
          !.C2_outvec = IF parsed.ndim = 0
                        THEN [i \in 1..slice[p]["C2"].n |-> parsed.val[1]]
                        ELSE parsed.val]
  ELSE IF c = "p" THEN [outputs[p] EXCEPT !.p_f_xy = parsed.val[1]]
  ELSE [outputs[p] EXCEPT !.s_f_x = parsed.val[1]]

\* -------------------------------------------------------------- positions
FirstStep(c) == IF c = "C3" THEN <<c, "enter">> ELSE <<c, "chdir">>
AfterSetup(pr, c) ==
  IF IndexOf(pr, c) < Len(Order(pr))
  THEN <<Order(pr)[IndexOf(pr, c) + 1], "setup">>
  ELSE FirstStep(Order(pr)[1])
AfterCompute(pr, c) ==
  IF IndexOf(pr, c) < Len(Order(pr))
  THEN FirstStep(Order(pr)[IndexOf(pr, c) + 1])
  ELSE <<"model", "done">>
Failed == <<"model", "failed">>
Done == <<"model", "done">>

\* -------------------------------------------------------------------- Init
\* the vectors given to indep.x: np.ones(n), and a ramp
XChoices(n) == {Ones(n), [i \in 1..n |-> i]}
\* the values given to p1.x and p2.y: the script's 3.0 and -4.0, and others
XYChoices == {<<3, -4>>, <<0, 0>>, <<1, 2>>}

\* What the script finds on disk:
\*   "fresh"    no toplevel_run_directory yet;
\*   "rerun"    the folders and files an earlier execution left;
\*   "blocked"  no toplevel_run_directory, and its parent is not writable;
\*   "file"     toplevel_run_directory is a regular file.
FsModes == {"fresh", "rerun", "blocked", "file"}

RunDirOf(c, p) == Join(toplevel_run_directory, subdir_name(c, p))
ExtCompsOf(pr) == CompsOf(pr) \cap ExtComps
StaleText(pr, c, p, n) ==
  IF c = "C2" THEN [i \in 1..DistribSlice(n, comm_rank(p), self_size).n |-> StaleRow]
  ELSE <<StaleRow>>

InitFs(mode, pr, n) ==
  /\ dirs = {Root, LaunchDir}
            \cup (IF mode = "rerun"
                  THEN {toplevel_run_directory}
                       \cup {RunDirOf(c, p) : c \in ExtCompsOf(pr), p \in 0..(n - 1)}
                  ELSE {})
  /\ files = IF mode = "file" THEN [f \in {toplevel_run_directory} |-> <<>>]
             ELSE IF mode = "rerun"
             THEN LET F == {<<c, p, io>> : c \in ExtCompsOf(pr), p \in 0..(n - 1),
                                           io \in {"in", "out"}}
                      PathOf(t) == Join(RunDirOf(t[1], t[2]),
                                        IF t[3] = "in" THEN input_file(t[1])
                                        ELSE output_file(t[1]))
                  IN  [f \in {PathOf(t) : t \in F} |->
                         LET t == CHOOSE t \in F : PathOf(t) = f
                         IN  StaleText(pr, t[1], t[2], n)]
             ELSE <<>>
  /\ readonly = IF mode = "blocked" THEN {Root} ELSE {}

\* no run_model call has ended yet
NoPrev == [valid |-> FALSE, ok |-> FALSE, ran |-> {}, indep |-> <<>>,
           inputs |-> <<>>, outputs |-> <<>>]

InitProcs(pr, n) ==
  /\ pc = [p \in 0..(n - 1) |-> <<"model", "setup">>]
  /\ cwd = [p \in 0..(n - 1) |-> LaunchDir]
  /\ startdir = [p \in 0..(n - 1) |-> NoDir]
  /\ run_directory = [p \in 0..(n - 1) |-> [c \in ExtCompsOf(pr) |-> NoDir]]
  /\ slice = [p \in 0..(n - 1) |-> [c \in {"C2", "C3"} |-> NoSlice]]
  /\ inputs = [p \in 0..(n - 1) |->
                 IF pr = "serial" THEN [p_x |-> 0, p_y |-> 0, s_x |-> 0]
                 ELSE [C2_invec |-> <<>>, C3_invec |-> <<>>]]
  /\ outputs = [p \in 0..(n - 1) |->
                  IF pr = "serial" THEN [p_f_xy |-> 0, s_f_x |-> 0]
                  ELSE [C2_outvec |-> <<>>, C3_out |-> 0]]
  /\ err = [p \in 0..(n - 1) |-> NoErr]
  /\ rc = [p \in 0..(n - 1) |-> <<>>]
  /\ ext = [p \in 0..(n - 1) |-> "none"]
  /\ log = [p \in 0..(n - 1) |-> <<>>]
  /\ data = [p \in 0..(n - 1) |-> 0]
  /\ acc = 0
  /\ arrived = {}
  /\ run_no = [p \in 0..(n - 1) |-> 1]
  /\ cmd = [p \in 0..(n - 1) |-> [c \in ExtCompsOf(pr) |-> "none"]]
  /\ prev = [p \in 0..(n - 1) |-> NoPrev]

InitMpi ==
  /\ prog = "mpi"
  /\ comm_size \in 1..MaxProcs
  /\ self_size \in (0..MaxSize) \cup {size}
  /\ indep \in XChoices(self_size)
  /\ \E mode \in FsModes : InitFs(mode, "mpi", comm_size)
  /\ InitProcs("mpi", comm_size)

InitSerial ==
  /\ prog = "serial"
  /\ comm_size = 1
  /\ self_size = 0
  /\ indep \in XYChoices
  /\ \E mode \in FsModes : InitFs(mode, "serial", 1)
  /\ InitProcs("serial", 1)

Init == InitMpi \/ InitSerial


\* ----------------------------------------------------------------- actions
\* a compute that runs the command before it writes the input file
StepAfterRunFirst(step) ==
  IF step = "chdir" THEN "run" ELSE IF step = "run" THEN "write" ELSE "parse"

\* the statements of an external-code compute in the order written: chdir,
\* write the input file, super().compute, read the output file
StepAfter(step) ==
  IF step = "chdir" THEN "write" ELSE IF step = "write" THEN "run" ELSE "parse"

\* a relative name taken in the directory the compute was entered from
ResolveAtStart(p, name) == Join(startdir[p], name)

\* open(name) with a relative name: the file of that name in the directory
\* the process is in
Resolve(p, name) == Join(cwd[p], name)

\* a check of the declared files that finds every file present
FileCheckSkipped(fs, path) == FALSE

\* ExternalCodeComp.compute: a declared file that does not exist
FileMissing(fs, path) == path \notin DOMAIN fs

Goto(p, where) == pc' = [pc EXCEPT ![p] = where]
Logged(p, c, what) == log' = [log EXCEPT ![p] = Append(@, <<c, what>>)]
\* an exception that is recorded and dropped: the worker goes on to Summer
RaiseAbsorbed(p, e) ==
  /\ pc' = [pc EXCEPT ![p] = IF prog = "mpi" THEN <<"C3", "enter">> ELSE Failed]
  /\ err' = [err EXCEPT ![p] = e]

\* an exception nothing catches: the script ends with a traceback
Raise(p, e) ==
  /\ pc' = [pc EXCEPT ![p] = Failed]
  /\ err' = [err EXCEPT ![p] = e]

\* SummerDistribGroup.setup / ParaboloidSquaredGroup.setup: the subsystems
\* are added and connected, then the parent directory is made, any failure
\* dropped.
GroupSetup(p) ==
  /\ pc[p] = <<"model", "setup">>
  /\ dirs' = MkdirSwallow(toplevel_run_directory)
  /\ Goto(p, <<Order(prog)[1], "setup">>)
  /\ UNCHANGED <<run_no, prev, cmd, prog, comm_size, self_size, indep, files, readonly, cwd, startdir,
                 run_directory, slice, inputs, outputs, err, rc, ext, log, data,
                 acc, arrived>>

\* DistribExtCodeComp.setup, ParaboloidExternalCodeComp.setup,
\* SquareExternalCodeComp.setup: declare the ports, name the files and the
\* command, set run_directory and make it, any failure dropped.
ExtCodeSetup(p, c) ==
  /\ pc[p] = <<c, "setup">>
  /\ c \in ExtComps
  /\ slice' = IF c = "C2"
              THEN [slice EXCEPT ![p]["C2"] =
                      DistribSlice(comm_size, comm_rank(p), self_size)]
              ELSE slice
  /\ inputs' = IF c = "C2"
               THEN [inputs EXCEPT ![p].C2_invec =
                       Ones(DistribSlice(comm_size, comm_rank(p), self_size).n)]
               ELSE inputs
  /\ outputs' = IF c = "C2"
                THEN [outputs EXCEPT ![p].C2_outvec =
                        Ones(DistribSlice(comm_size, comm_rank(p), self_size).n)]
                ELSE outputs
  /\ run_directory' = [run_directory EXCEPT ![p][c] = RunDirOf(c, p)]
  /\ dirs' = MkdirSwallow(RunDirOf(c, p))
  /\ Goto(p, AfterSetup(prog, c))
  /\ UNCHANGED <<run_no, prev, cmd, prog, comm_size, self_size, indep, files, readonly, cwd, startdir,
                 err, rc, ext, log, data, acc, arrived>>

\* Summer.setup: the offsets are indexed with the module's rank, the local
\* size with self.comm.rank.
SummerSetup(p) ==
  /\ pc[p] = <<"C3", "setup">>
  /\ LET d == evenly_distrib_idxs(comm_size, self_size)
         start == d.offsets[rank(p)]
         end == start + d.sizes[rank(p)]
     IN  /\ slice' = [slice EXCEPT ![p]["C3"] =
                        [start |-> start, end |-> end, n |-> d.sizes[comm_rank(p)]]]
         /\ inputs' = [inputs EXCEPT ![p].C3_invec = Ones(d.sizes[comm_rank(p)])]
  /\ Goto(p, AfterSetup(prog, "C3"))
  /\ UNCHANGED <<run_no, prev, cmd, prog, comm_size, self_size, indep, dirs, files, readonly, cwd,
                 startdir, run_directory, outputs, err, rc, ext, log, data, acc,
                 arrived>>

\* compute, first part: read the inputs, startdir = os.getcwd(),
\* os.chdir(self.run_directory)
Chdir(p, c) ==
  /\ pc[p] = <<c, "chdir">>
  /\ inputs' = [inputs EXCEPT ![p] = Transfer(c, p)]
  /\ startdir' = [startdir EXCEPT ![p] = cwd[p]]
  /\ rc' = [rc EXCEPT ![p] = <<>>]
  /\ ext' = [ext EXCEPT ![p] = "none"]
  /\ IF ChdirResult(run_directory[p][c]) = "ok"
     THEN /\ cwd' = [cwd EXCEPT ![p] = run_directory[p][c]]
          /\ Goto(p, <<c, StepAfter("chdir")>>)
          /\ Logged(p, c, "chdir")
          /\ UNCHANGED err
     ELSE /\ Raise(p, Error(ChdirResult(run_directory[p][c]), 0, ""))
          /\ UNCHANGED <<cwd, log>>
  /\ UNCHANGED <<run_no, prev, cmd, prog, comm_size, self_size, indep, dirs, files, readonly,
                 run_directory, slice, outputs, data, acc, arrived>>

\* compute: with open(self.input_file, 'w') ...: write the inputs; the file
\* name is relative, so it lands in the current directory. The write can
\* fail (disk full, file not writable).
WriteInput(p, c) ==
  /\ pc[p] = <<c, "write">>
  /\ \E written \in BOOLEAN :
       IF written
       THEN /\ files' = WriteFile(files, Resolve(p, input_file(c)),
                                  InputText(c, inputs[p]))
            /\ Goto(p, <<c, StepAfter("write")>>)
            /\ Logged(p, c, "write_input")
            /\ UNCHANGED err
       ELSE /\ Raise(p, Error("OSError", 0, input_file(c)))
            /\ UNCHANGED <<files, log>>
  /\ UNCHANGED <<run_no, prev, cmd, prog, comm_size, self_size, indep, dirs, readonly, cwd, startdir,
                 run_directory, slice, inputs, outputs, rc, ext, data, acc, arrived>>

\* compute: super().compute(inputs, outputs), that is ExternalCodeComp.compute:
\* the declared input files must exist, the command runs in the current
\* directory and is waited for, a status outside allowed_return_codes raises,
\* then the declared output files must exist.
RunExternal(p, c) ==
  /\ pc[p] = <<c, "run">>
  /\ IF FileMissing(files, Resolve(p, input_file(c)))
     THEN /\ Raise(p, Error("MissingInputFileError", 0, input_file(c)))
          /\ UNCHANGED <<files, rc, ext, cmd, log>>
     ELSE \E outcome \in ExtOutcomes, code \in ExitCodes :
       LET inpath == Resolve(p, input_file(c))
           outpath == Resolve(p, output_file(c))
           ran == Command(c, files[inpath], outcome, code)
           after == IF ran.wrote THEN WriteFile(files, outpath, ran.out) ELSE files
           did == IF outcome = "ok" /\ ran.rc # 0 THEN "crash" ELSE outcome
       IN  /\ outcome # "exit" => code = 1
           /\ files' = after
           /\ rc' = [rc EXCEPT ![p] = <<ran.rc>>]
           /\ ext' = [ext EXCEPT ![p] = did]
           /\ cmd' = [cmd EXCEPT ![p][c] = did]
           /\ IF ~ReturnCodeAllowed(ran.rc)
              THEN /\ Raise(p, Error("ExternalProcessError", ran.rc, ""))
                   /\ Logged(p, c, "run")
              ELSE IF FileMissing(after, outpath)
              THEN /\ Raise(p, Error("MissingOutputFileError", 0, output_file(c)))
                   /\ log' = [log EXCEPT ![p] = @ \o <<<<c, "run">>, <<c, "verify_output">>>>]
              ELSE /\ Goto(p, <<c, StepAfter("run")>>)
                   /\ log' = [log EXCEPT ![p] = @ \o <<<<c, "run">>, <<c, "verify_output">>>>]
                   /\ UNCHANGED err
  /\ UNCHANGED <<run_no, prev, prog, comm_size, self_size, indep, dirs, readonly, cwd,
                 startdir, run_directory, slice, inputs, outputs, data, acc, arrived>>

\* compute, last part: read and parse the output file, assign the output,
\* os.chdir(startdir)
ReadOutput(p, c) ==
  /\ pc[p] = <<c, "parse">>
  /\ IF Resolve(p, output_file(c)) \notin DOMAIN files
     THEN /\ Raise(p, Error("FileNotFoundError", 0, output_file(c)))
          /\ UNCHANGED <<outputs, cwd, log>>
     ELSE
     LET parsed == ParseOutput(c, files[Resolve(p, output_file(c))])
     IN  IF ~parsed.ok
         THEN /\ Raise(p, Error("OutputParseError", 0, output_file(c)))
              /\ log' = [log EXCEPT ![p] = Append(@, <<c, "read_output">>)]
              /\ UNCHANGED <<outputs, cwd>>
         ELSE IF ~Assignable(c, p, parsed)
         THEN /\ Raise(p, Error("ValueError", 0, ""))
              /\ log' = [log EXCEPT ![p] = Append(@, <<c, "read_output">>)]
              /\ UNCHANGED <<outputs, cwd>>
         ELSE /\ outputs' = [outputs EXCEPT ![p] = Assign(c, p, parsed)]
              /\ cwd' = [cwd EXCEPT ![p] = startdir[p]]
              /\ log' = [log EXCEPT ![p] =
                           @ \o <<<<c, "read_output">>, <<c, "assign">>, <<c, "restore">>>>]
              /\ Goto(p, AfterCompute(prog, c))
              /\ UNCHANGED err
  /\ UNCHANGED <<run_no, prev, cmd, prog, comm_size, self_size, indep, dirs, files,
                 readonly, startdir, run_directory, slice, inputs, rc, ext, data, acc,
                 arrived>>

\* the total a rank would take from a reduction that does not wait
ReduceReadyEarly(p) == p \in arrived
\* MPI Allreduce returns on a rank once every rank of the communicator has
\* called it
ReduceReady(p) == arrived = Ranks

\* a reduction that keeps only the last send buffer
ReduceLast(sum, v) == v
\* op = MPI.SUM
ReduceSum(sum, v) == sum + v

\* Summer.compute, first part: data[0] = np.sum(invec), then the call of
\* self.comm.Allreduce(data, total, op=MPI.SUM)
AllreduceEnter(p) ==
  /\ pc[p] = <<"C3", "enter">>
  /\ inputs' = [inputs EXCEPT ![p] = TransferSummer(p)]
  /\ data' = [data EXCEPT ![p] = SeqSum(TransferSummer(p).C3_invec)]
  /\ acc' = ReduceSum(acc, SeqSum(TransferSummer(p).C3_invec))
  /\ arrived' = arrived \cup {p}
  /\ Goto(p, <<"C3", "wait">>)
  /\ UNCHANGED <<run_no, prev, cmd, prog, comm_size, self_size, indep, dirs, files, readonly, cwd,
                 startdir, run_directory, slice, outputs, err, rc, ext, log>>

\* Summer.compute, last part: Allreduce returns with total, and
\* self._outputs['out'] = total[0]
AllreduceReturn(p) ==
  /\ pc[p] = <<"C3", "wait">>
  /\ ReduceReady(p)
  /\ outputs' = [outputs EXCEPT ![p].C3_out = acc]
  /\ Goto(p, AfterCompute(prog, "C3"))
  /\ UNCHANGED <<run_no, prev, cmd, prog, comm_size, self_size, indep, dirs, files, readonly, cwd,
                 startdir, run_directory, slice, inputs, err, rc, ext, log, data,
                 acc, arrived>>

\* the components whose command ran its script to the end in this run
RanOk(p) == {c \in DOMAIN cmd[p] : cmd[p][c] = "ok"}

\* prob.run_model() called again on the serial problem, after new values
\* (or the same ones) were given to p1.x and p2.y. The call before it has
\* returned, or has raised and its exception was caught by the caller; the
\* process is in whatever directory that call left it in.
RunAgain(p) ==
  /\ prog = "serial"
  /\ pc[p] \in {Done, Failed}
  /\ run_no[p] < MaxRuns
  /\ run_no' = [run_no EXCEPT ![p] = @ + 1]
  /\ prev' = [prev EXCEPT ![p] =
                [valid |-> TRUE,
                 ok |-> pc[p] = Done /\ RanOk(p) = ExtCompsOf(prog),
                 ran |-> RanOk(p), indep |-> indep,
                 inputs |-> inputs[p], outputs |-> outputs[p]]]
  /\ indep' \in XYChoices
  /\ err' = [err EXCEPT ![p] = NoErr]
  /\ rc' = [rc EXCEPT ![p] = <<>>]
  /\ ext' = [ext EXCEPT ![p] = "none"]
  /\ cmd' = [cmd EXCEPT ![p] = [c \in ExtCompsOf(prog) |-> "none"]]
  /\ log' = [log EXCEPT ![p] = <<>>]
  /\ Goto(p, FirstStep(Order(prog)[1]))
  /\ UNCHANGED <<prog, comm_size, self_size, dirs, files, readonly, cwd, startdir,
                 run_directory, slice, inputs, outputs, data, acc, arrived>>

Next ==
  \/ \E p \in Ranks : GroupSetup(p)
  \/ \E p \in Ranks, c \in ExtComps : ExtCodeSetup(p, c)
  \/ \E p \in Ranks : SummerSetup(p)
  \/ \E p \in Ranks, c \in ExtComps : Chdir(p, c)
  \/ \E p \in Ranks, c \in ExtComps : WriteInput(p, c)
  \/ \E p \in Ranks, c \in ExtComps : RunExternal(p, c)
  \/ \E p \in Ranks, c \in ExtComps : ReadOutput(p, c)
  \/ \E p \in Ranks : AllreduceEnter(p)
  \/ \E p \in Ranks : AllreduceReturn(p)
  \/ \E p \in Ranks : RunAgain(p)

Spec == Init /\ [][Next]_vars


\* ------------------------------------------- the partition on its own
\* DistribExtCodeComp.setup applied rank after rank, for every communicator
\* size up to MaxWorkers and every global length up to MaxLen; the
\* toplevel_run_directory exists.
InitPartition ==
  /\ prog = "partition"
  /\ comm_size \in 1..MaxWorkers
  /\ self_size \in 0..MaxLen
  /\ indep = Ones(self_size)
  /\ dirs = {Root, LaunchDir, toplevel_run_directory}
  /\ files = <<>>
  /\ readonly = {}
  /\ pc = [p \in 0..(comm_size - 1) |-> <<"C2", "setup">>]
  /\ cwd = [p \in 0..(comm_size - 1) |-> LaunchDir]
  /\ startdir = [p \in 0..(comm_size - 1) |-> NoDir]
  /\ run_directory = [p \in 0..(comm_size - 1) |-> [c \in {"C2"} |-> NoDir]]
  /\ slice = [p \in 0..(comm_size - 1) |-> [c \in {"C2", "C3"} |-> NoSlice]]
  /\ inputs = [p \in 0..(comm_size - 1) |-> [C2_invec |-> <<>>, C3_invec |-> <<>>]]
  /\ outputs = [p \in 0..(comm_size - 1) |-> [C2_outvec |-> <<>>, C3_out |-> 0]]
  /\ err = [p \in 0..(comm_size - 1) |-> NoErr]
  /\ rc = [p \in 0..(comm_size - 1) |-> <<>>]
  /\ ext = [p \in 0..(comm_size - 1) |-> "none"]
  /\ log = [p \in 0..(comm_size - 1) |-> <<>>]
  /\ data = [p \in 0..(comm_size - 1) |-> 0]
  /\ acc = 0
  /\ arrived = {}
  /\ run_no = [p \in 0..(comm_size - 1) |-> 1]
  /\ cmd = [p \in 0..(comm_size - 1) |-> [c \in {"C2"} |-> "none"]]
  /\ prev = [p \in 0..(comm_size - 1) |-> NoPrev]

NextPartition ==
  \E p \in Ranks :
    /\ \A q \in Ranks : q < p => pc[q] # <<"C2", "setup">>
    /\ ExtCodeSetup(p, "C2")

PartSpec == InitPartition /\ [][NextPartition]_vars

\* ------------------------------------------------------------------ claims
\* the ranks whose DistribExtCodeComp.setup has run
SetUp == {p \in Ranks : run_directory[p]["C2"] # NoDir}
InCompute(p) == pc[p][2] \in {"write", "run", "parse"}
Entered(p) == pc[p] = <<"C3", "wait">> \/ (prog = "mpi" /\ pc[p] = Done)
RECURSIVE SumOver(_, _)
SumOver(f, S) ==
  IF S = {} THEN 0 ELSE LET a == CHOOSE a \in S : TRUE IN f[a] + SumOver(f, S \ {a})

\* C1: once every rank has set up, the slices [start, end) have lengths that
\* sum to the global length, the first starts at 0, each next one starts
\* where the previous ends, and every global index lies in exactly one slice.
C1_PartitionCoversOnce ==
  /\ \A p \in SetUp :
       /\ slice[p]["C2"].end = slice[p]["C2"].start + slice[p]["C2"].n
       /\ slice[p]["C2"].n >= 0
       /\ p = 0 => slice[p]["C2"].start = 0
       /\ (p + 1) \in SetUp => slice[p + 1]["C2"].start = slice[p]["C2"].end
  /\ SetUp = Ranks =>
       /\ SumOver([p \in Ranks |-> slice[p]["C2"].n], Ranks) = self_size
       /\ \A i \in 0..(self_size - 1) :
            Cardinality({p \in Ranks : slice[p]["C2"].start <= i
                                       /\ i < slice[p]["C2"].end}) = 1

C1_Witness ==
  /\ prog = "partition" /\ SetUp = Ranks
  /\ comm_size = 4 /\ self_size = 10
  /\ slice[3]["C2"].start = 8 /\ slice[3]["C2"].end = 10

\* C9: with base = global length div worker count and remainder = global
\* length mod worker count, a rank below remainder holds base+1 elements and
\* every other rank base elements; two lengths differ by at most 1.
C9_BalancedEarliestExtra ==
  /\ \A p \in SetUp :
       slice[p]["C2"].n = (self_size \div comm_size)
                          + (IF p < self_size % comm_size THEN 1 ELSE 0)
  /\ \A p \in SetUp, q \in SetUp :
       /\ slice[p]["C2"].n - slice[q]["C2"].n <= 1
       /\ p < q => slice[p]["C2"].n >= slice[q]["C2"].n

C9_Witness ==
  /\ prog = "partition" /\ SetUp = Ranks
  /\ comm_size = 4 /\ self_size = 10
  /\ slice[1]["C2"].n = 3 /\ slice[2]["C2"].n = 2


\* C2: a process that is not inside a compute (before it, after it returned,
\* or after it raised) has the working directory it was started in.
C2_CwdRestoredOnEveryExit ==
  \A p \in Ranks : ~InCompute(p) => cwd[p] = LaunchDir

\* C3: no state has a worker whose external command failed while
\* every other worker has either failed too or sits in Allreduce, with no
\* step left to take.
C3_NoWorkerStranded ==
  ~(/\ prog = "mpi"
    /\ \E p \in Ranks : pc[p] = Failed /\ err[p].kind = "ExternalProcessError"
    /\ \E q \in Ranks : pc[q] = <<"C3", "wait">>
    /\ \A q \in Ranks : pc[q] \in {Failed, <<"C3", "wait">>}
    /\ ~ENABLED Next)

\* C4: a worker that has returned from Allreduce holds the sum of the local
\* values of all workers, each local value being that worker's np.sum of its
\* invec, counted once; so all returned workers hold the same total.
C4_AllreduceTotal ==
  prog = "mpi" =>
    \A p \in Ranks :
      pc[p] = Done =>
        /\ outputs[p].C3_out = SumOver(data, Ranks)
        /\ \A q \in Ranks :
             /\ data[q] = SeqSum(inputs[q].C3_invec)
             /\ pc[q] = Done => outputs[q].C3_out = outputs[p].C3_out

C4_Witness ==
  /\ prog = "mpi" /\ comm_size = 2
  /\ \A p \in Ranks : pc[p] = Done
  /\ data[0] > 0 /\ data[1] > 0 /\ data[0] # data[1]
  /\ outputs[0].C3_out = data[0] + data[1]

\* C5: no worker has returned from Allreduce, or holds a new 'out', unless
\* every worker of the communicator has called Allreduce.
C5_Rendezvous ==
  prog = "mpi" =>
    \A p \in Ranks :
      (pc[p] = Done \/ outputs[p].C3_out # 0) => \A q \in Ranks : Entered(q)

\* one worker has returned while the other is still inside the call, and
\* the worker that returned was the first to call
C5_Witness ==
  /\ prog = "mpi" /\ comm_size = 2
  /\ pc[1] = Done /\ pc[0] = <<"C3", "wait">>
  /\ outputs[1].C3_out = 30

\* the output port of component c still holds the value it had when this
\* run began: the one the previous run left or, in a first run, the declared
\* initial value
Unassigned(p, c) ==
  IF prev[p].valid
  THEN IF c = "p" THEN outputs[p].p_f_xy = prev[p].outputs.p_f_xy
       ELSE outputs[p].s_f_x = prev[p].outputs.s_f_x
  ELSE IF c = "C2" THEN outputs[p].C2_outvec = Ones(slice[p]["C2"].n)
  ELSE IF c = "p" THEN outputs[p].p_f_xy = 0
  ELSE outputs[p].s_f_x = 0

\* C6: when the external command of a compute has ended with a status other
\* than 0, the compute has raised an external-process error carrying that
\* status, running the command is the last thing it did (the output file was
\* not read) and the component's output port has not been assigned.
C6_NonZeroExitRaises ==
  \A p \in Ranks :
    (rc[p] # <<>> /\ rc[p][1] # 0) =>
      /\ pc[p] = Failed
      /\ err[p] = Error("ExternalProcessError", rc[p][1], "")
      /\ log[p][Len(log[p])][2] = "run"
      /\ Unassigned(p, log[p][Len(log[p])][1])

\* the command ends with status 2 in a folder that holds an output file
C6_Witness ==
  \E p \in Ranks :
    /\ rc[p] = <<2>> /\ pc[p] = Failed
    /\ Join(cwd[p], output_file("C2")) \in DOMAIN files

\* C7: once a component's setup has set run_directory, that directory exists.
C7_SetupLeavesRunDirectory ==
  \A p \in Ranks : \A c \in ExtCompsOf(prog) :
    run_directory[p][c] # NoDir => run_directory[p][c] \in dirs

\* C8: two different component instances have different run directories, and
\* two processes that are both inside a compute are in different directories.
C8_UniqueRunDirectories ==
  /\ \A p \in Ranks, q \in Ranks : \A c \in ExtCompsOf(prog), d \in ExtCompsOf(prog) :
       (<<p, c>> # <<q, d>> /\ run_directory[p][c] # NoDir /\ run_directory[q][d] # NoDir)
         => run_directory[p][c] # run_directory[q][d]
  /\ \A p \in Ranks, q \in Ranks :
       (p # q /\ InCompute(p) /\ InCompute(q)) => cwd[p] # cwd[q]

C8_Witness ==
  /\ prog = "mpi" /\ comm_size = 2
  /\ pc[0] = <<"C2", "run">> /\ pc[1] = <<"C2", "run">>
  /\ cwd[0] = Join(toplevel_run_directory, <<"distrib_", "0">>)
  /\ cwd[1] = Join(toplevel_run_directory, <<"distrib_", "1">>)

\* the entries of indep.x that rank p's slice covers
LocalX(p) == SubSeq(indep, slice[p]["C2"].start + 1, slice[p]["C2"].end)

LastComp(p) == log[p][Len(log[p])][1]
LastEvent(p) == log[p][Len(log[p])][2]

\* C11: when the command of a compute has ended with status 0 and the
\* component's output file does not exist in its run directory, the compute
\* has raised a missing-output-file error naming that file, right after the
\* check for it, and the component's output port has not been assigned.
C11_MissingOutputRaises ==
  \A p \in Ranks :
    (/\ rc[p] = <<0>>
     /\ log[p] # <<>>
     /\ Join(run_directory[p][LastComp(p)], output_file(LastComp(p))) \notin DOMAIN files)
    => /\ pc[p] = Failed
       /\ err[p] = Error("MissingOutputFileError", 0, output_file(LastComp(p)))
       /\ LastEvent(p) = "verify_output"
       /\ Unassigned(p, LastComp(p))

\* the square command exits 0 without writing square_output.dat, after the
\* paraboloid stage has delivered its value
C11_Witness ==
  /\ prog = "serial"
  /\ pc[0] = Failed
  /\ rc[0] = <<0>>
  /\ cmd[0]["p"] = "ok" /\ cmd[0]["s"] = "nowrite"
  /\ err[0] = Error("MissingOutputFileError", 0, "square_output.dat")
  /\ outputs[0].s_f_x = 0


\* C12: a worker whose external-code stage has raised has left the script
\* with that exception: it is not among the ranks that called Allreduce, it
\* has contributed no local sum, and the running sum holds the local sums of
\* the ranks that called and nothing else.
C12_ErrorNotAbsorbed ==
  prog = "mpi" =>
    /\ \A p \in Ranks :
         err[p] # NoErr =>
           /\ pc[p] = Failed
           /\ p \notin arrived
           /\ data[p] = 0
           /\ outputs[p].C3_out = 0
    /\ acc = SumOver(data, arrived)

\* rank 1's command failed; rank 0 has called Allreduce with its own sum
C12_Witness ==
  /\ prog = "mpi" /\ comm_size = 2
  /\ err[1].kind = "ExternalProcessError" /\ pc[1] = Failed
  /\ arrived = {0} /\ data[0] > 0 /\ acc = data[0]


\* C13: with more workers than elements, the excess workers get slices of
\* length 0; no worker's script, run as written, fails; a worker with an
\* empty slice calls Allreduce with the local sum 0; and 'out' is twice the
\* sum of x on every worker that finished.
C13_ExcessWorkersStillReduce ==
  (prog = "mpi" /\ comm_size > self_size) =>
    \A p \in Ranks :
      /\ (p \in SetUp /\ p >= self_size) => slice[p]["C2"].n = 0
      /\ cmd[p]["C2"] # "crash"
      /\ (Entered(p) /\ slice[p]["C2"].n = 0) => data[p] = 0
      /\ (pc[p] = Done /\ \A q \in Ranks : cmd[q]["C2"] = "ok")
           => outputs[p].C3_out = 2 * SeqSum(indep)


\* the values on the input ports and on the output port of component c
InPorts(c, inp) == IF c = "p" THEN <<inp.p_x, inp.p_y>> ELSE <<inp.s_x>>
OutPort(c, out) == IF c = "p" THEN out.p_f_xy ELSE out.s_f_x
\* component c has assigned its output in the run under way
AssignedNow(p, c) == \E i \in 1..Len(log[p]) : log[p][i] = <<c, "assign">>
InPath(p, c) == Join(run_directory[p][c], input_file(c))
OutPath(p, c) == Join(run_directory[p][c], output_file(c))

\* C14: in a second run_model call, a component whose script ran as written
\* in both calls on the same input values has assigned the same output value
\* as in the first call; and the files of the second call replace those of
\* the first: when the command is about to run, the input file holds exactly
\* the text of this call's inputs, and after the assignment the output file
\* holds exactly the text of this call's output.
C14_RerunSameOutputs ==
  \A p \in Ranks : \A c \in ExtCompsOf(prog) :
    (prog = "serial" /\ prev[p].valid) =>
      /\ pc[p] = <<c, "run">> => files[InPath(p, c)] = InputText(c, inputs[p])
      /\ (cmd[p][c] = "ok" /\ AssignedNow(p, c)) =>
           /\ files[OutPath(p, c)] = <<Fmt16(OutPort(c, outputs[p]))>>
           /\ (c \in prev[p].ran /\ InPorts(c, inputs[p]) = InPorts(c, prev[p].inputs))
                => OutPort(c, outputs[p]) = OutPort(c, prev[p].outputs)

\* the second call has ended like the first, on the same x = 1, y = 2, with
\* both scripts run as written in both calls
C14_Witness ==
  /\ prog = "serial" /\ pc[0] = Done /\ run_no[0] = 2
  /\ prev[0].ok /\ prev[0].indep = <<1, 2>> /\ indep = <<1, 2>>
  /\ RanOk(0) = {"p", "s"}
  /\ outputs[0].s_f_x = 1521 /\ prev[0].outputs.s_f_x = 1521
  /\ files[OutPath(0, "s")] = <<Fmt16(1521)>>


\* the paraboloid (x-3)^2 + xy + (y+4)^2 - 3
Paraboloid(x, y) == (x - 3) * (x - 3) + x * y + (y + 4) * (y + 4) - 3

\* C15: when run_model has returned and both scripts ran as written, p.f_xy
\* is the paraboloid of p1.x and p2.y and s.f_x is the square of p.f_xy; for
\* x = 3, y = -4 these are -15 and 225.
C15_ChainedPipeline ==
  \A p \in Ranks :
    (prog = "serial" /\ pc[p] = Done /\ RanOk(p) = {"p", "s"}) =>
      /\ outputs[p].p_f_xy = Paraboloid(indep[1], indep[2])
      /\ outputs[p].s_f_x = outputs[p].p_f_xy * outputs[p].p_f_xy
      /\ indep = <<3, -4>> => (outputs[p].p_f_xy = -15 /\ outputs[p].s_f_x = 225)

\* the script's own run: x = 3, y = -4, a fresh disk, first call
C15_Witness ==
  /\ prog = "serial" /\ pc[0] = Done /\ RanOk(0) = {"p", "s"} /\ run_no[0] = 1
  /\ indep = <<3, -4>>
  /\ outputs[0].p_f_xy = -15 /\ outputs[0].s_f_x = 225
  /\ cwd[0] = LaunchDir


\* the steps of one compute in the order the claim gives them, followed by
\* the return to the starting directory
StepOrder ==
  <<"chdir", "write_input", "run", "verify_output", "read_output", "assign", "restore">>
StepIndex(e) == CHOOSE i \in 1..Len(StepOrder) : StepOrder[i] = e

\* C16: in each process the steps of a compute happen in the order chdir,
\* write input, run and wait, verify output, read output, assign: the first
\* step of a run is a chdir, each later step is the successor of the step
\* before it in the same compute, or the chdir of the next component after
\* the previous compute ended; and an output file is read only after the
\* command of that compute has ended with status 0 and the check for the
\* file has been made.
C16_StepsInOrder ==
  \A p \in Ranks :
    /\ log[p] # <<>> => log[p][1] = <<Order(prog)[1], "chdir">>
    /\ \A i \in 1..(Len(log[p]) - 1) :
         \/ /\ log[p][i + 1][1] = log[p][i][1]
            /\ StepIndex(log[p][i + 1][2]) = StepIndex(log[p][i][2]) + 1
         \/ /\ log[p][i][2] = "restore" /\ log[p][i + 1][2] = "chdir"
            /\ IndexOf(prog, log[p][i + 1][1]) = IndexOf(prog, log[p][i][1]) + 1
    /\ \A i \in 1..Len(log[p]) :
         log[p][i][2] = "read_output" =>
           /\ cmd[p][log[p][i][1]] \in {"ok", "nowrite", "garbled"}
           /\ i > 1 /\ log[p][i - 1] = <<log[p][i][1], "verify_output">>
    /\ \A c \in ExtCompsOf(prog) :
         /\ pc[p] = <<c, "write">> => LastEvent(p) = "chdir"
         /\ pc[p] = <<c, "run">> => LastEvent(p) = "write_input"
         /\ pc[p] = <<c, "parse">> => (LastEvent(p) = "verify_output" /\ rc[p] = <<0>>)

\* both computes of the serial script have gone through all their steps
C16_Witness ==
  /\ prog = "serial" /\ pc[0] = Done /\ Len(log[0]) = 14
  /\ log[0][3] = <<"p", "run">> /\ log[0][5] = <<"p", "read_output">>
  /\ log[0][8] = <<"s", "chdir">> /\ log[0][13] = <<"s", "assign">>


\* C17: a value a compute has assigned in the run under way is the one the
\* command produced from the inputs of that compute: the command wrote the
\* output file in this run, and the file holds what the script makes of the
\* input text of this compute.
C17_NoStaleResult ==
  \A p \in Ranks : \A c \in ExtCompsOf(prog) :
    AssignedNow(p, c) =>
      /\ cmd[p][c] # "nowrite"
      /\ files[OutPath(p, c)] = Script(c, InputText(c, inputs[p])).out


\* C18: every step leaves every file in place, and a file it creates or
\* changes is the input file of the compute that is writing its inputs, or
\* the output file of the compute that is running its command, in the run
\* directory of that component in that process; all other files keep their
\* content. This holds in every call, also one that follows a failed call
\* of the same process.
C18_OnlyOwnFiles ==
  [][/\ DOMAIN files \subseteq DOMAIN files'
     /\ \A f \in DOMAIN files' :
          (f \notin DOMAIN files \/ files'[f] # files[f]) =>
            \E p \in Ranks : \E c \in ExtCompsOf(prog) :
              /\ pc'[p] # pc[p]
              /\ \/ pc[p] = <<c, "write">> /\ f = InPath(p, c)
                 \/ pc[p] = <<c, "run">> /\ f = OutPath(p, c)
              /\ Parent(f) = run_directory[p][c]
              /\ \A q \in Ranks : \A b \in ExtCompsOf(prog) :
                   <<q, b>> # <<p, c>> => run_directory[q][b] # Parent(f)]_vars

\* a second call, made from the paraboloid folder where the first call
\* failed, has run both commands: the disk holds the four files of the two
\* components, each in its own folder, and nothing else
C18_Witness ==
  /\ prog = "serial" /\ run_no[0] = 2 /\ prev[0].valid /\ ~prev[0].ok
  /\ startdir[0] = RunDirOf("p", 0)
  /\ pc[0] = <<"s", "parse">> /\ cmd[0]["s"] = "ok"
  /\ DOMAIN files = {InPath(0, "p"), OutPath(0, "p"), InPath(0, "s"), OutPath(0, "s")}
  /\ files[OutPath(0, "s")] = <<Fmt16(OutPort("p", outputs[0]) * OutPort("p", outputs[0]))>>


\* the ranks on which every setup has run
AllSetUp == {p \in Ranks : pc[p][2] # "setup"}
\* the global indices Summer's invec takes on rank p
SummerIndices(p) == slice[p]["C3"].start .. (slice[p]["C3"].end - 1)

\* C19: on every rank whose setups have run, the index range Summer.setup
\* gives C3.invec is the range of the rank's own C2.outvec slice and has the
\* declared local size; and once all ranks are set up, every global index
\* lies in the range of exactly one rank.
C19_SummerReadsOwnSlice ==
  prog = "mpi" =>
    /\ \A p \in AllSetUp :
         /\ slice[p]["C3"].start = slice[p]["C2"].start
         /\ slice[p]["C3"].end = slice[p]["C2"].end
         /\ slice[p]["C3"].end - slice[p]["C3"].start = slice[p]["C3"].n
         /\ slice[p]["C3"].n = slice[p]["C2"].n
         /\ Len(inputs[p].C3_invec) = slice[p]["C3"].n
    /\ AllSetUp = Ranks =>
         \A i \in 0..(self_size - 1) :
           \E p \in Ranks :
             /\ i \in SummerIndices(p)
             /\ \A q \in Ranks \ {p} : i \notin SummerIndices(q)

\* three elements on two ranks: rank 0 reads indices 0..1, rank 1 index 2
C19_Witness ==
  /\ prog = "mpi" /\ comm_size = 2 /\ self_size = 3 /\ AllSetUp = Ranks
  /\ slice[0]["C3"] = [start |-> 0, end |-> 2, n |-> 2]
  /\ slice[1]["C3"] = [start |-> 2, end |-> 3, n |-> 1]


\* C20: with several ranks running their setups side by side, a rank whose
\* DistribExtCodeComp.setup has finished finds its run directory on disk,
\* and its os.chdir(self.run_directory) in compute does not fail for a
\* missing directory.
C20_ParallelSetupSafe ==
  (prog = "mpi" /\ comm_size > 1) =>
    \A p \in SetUp :
      /\ pc[p] \in {<<"C2", "chdir">>, <<"C2", "write">>} => run_directory[p]["C2"] \in dirs
      /\ err[p] \notin {Error("FileNotFoundError", 0, ""), Error("NotADirectoryError", 0, "")}

=============================================================================
